---- MODULE Spec2Model ----
(***************************************************************************)
(* Model of pyDeltaRCM/shared_tools.py: the routines shared by the water   *)
(* and sediment routing of pyDeltaRCM (direction tables, random stream,    *)
(* index transforms, random-walk weights, weighted pick, step lookup).     *)
(*                                                                         *)
(* Arrays are sequences; the numpy index k is the sequence index k + 1.    *)
(* get_weight_at_cell computes on exact rationals plus NaN (the floats      *)
(* section); random_pick and the random stream compute on float64 values   *)
(* bit for bit (the float64 section).                                      *)
(***************************************************************************)
EXTENDS Integers, Sequences, FiniteSets

VARIABLES
    \* ---- index transform calls (custom_ravel / custom_unravel)
    idx_pc,       \* position of the index-transform caller
    shape,        \* the grid shape <<rows, cols>> handed to both functions
    idx_in,       \* the caller's first call and its argument: [first, tup, i]
    tup,          \* the current (row, col) value
    flat,         \* the current flat index value
    idx_err,      \* TRUE once a call raised IndexError
    \* ---- get_steps calls
    st_pc,        \* position of the get_steps caller
    new_cells,    \* the batch of chosen direction indices, each in 0..8
    steps,        \* the returned [dist, istep, jstep, astep], one entry per cell
    \* ---- get_weight_at_cell calls
    w_pc,         \* position of the get_weight_at_cell caller
    ind,          \* the source cell <<row, col>>
    weight_sfc,   \* the caller's surface-weight array (9 floats)
    weight_int,   \* the caller's momentum-weight array (9 floats)
    depth_nbrs,   \* the caller's neighbour depth array (9 floats)
    ct_nbrs,      \* the caller's neighbour cell-type array (9 ints)
    dry_depth,    \* float
    gamma,        \* float
    theta,        \* exponent (a natural number here)
    weight,       \* the returned weight array
    w_args,       \* the four arrays as they were when the call was made
    \* ---- random_pick calls
    pick_pc,      \* position of the random_pick caller
    rng,          \* the process-wide random stream state
    prob,         \* the weight array handed to random_pick
    picked,       \* the returned index
    \* ---- two runs of one seeded program
    seed,         \* the seed both runs pass to set_random_seed
    calls,        \* the calls the program makes after seeding, in order
    inlet,        \* the inlet cells handed to get_start_indices
    inlet_weights,\* the inlet weights handed to get_start_indices
    run_pc,       \* per run: 0 before seeding, then the position in calls
    run_rng,      \* per run: the random stream state of that process
    run_saved,    \* per run: the state tuple the process holds
    run_out       \* per run: what the calls returned, in call order

idx_vars == <<idx_pc, shape, idx_in, tup, flat, idx_err>>
st_vars == <<st_pc, new_cells, steps>>
w_vars == <<w_pc, ind, weight_sfc, weight_int, depth_nbrs, ct_nbrs, dry_depth,
            gamma, theta, weight, w_args>>
pick_vars == <<pick_pc, rng, prob, picked>>
run_vars == <<seed, calls, inlet, inlet_weights, run_pc, run_rng, run_saved, run_out>>
vars == <<idx_vars, st_vars, w_vars, pick_vars, run_vars>>

\* ------------------------------------------------------------------ bounds
\* Largest number of rows and of columns of a grid shape.
MaxDim == 3
\* Largest number of direction indices in one get_steps batch.
MaxBatch == 2

\* Neighbour depths are 0..MaxDepth.
MaxDepth == 3
\* Raw surface and momentum weights are 0..MaxWeight.
MaxWeight == 1

\* The generator states that were not reached by seeding are 0..RngModulus-1.
RngModulus == 8
\* Entries of a weight array handed to random_pick are the float64 values of
\* k / ProbDen.
ProbDen == 7
\* Seeds are 0..MaxSeed.
MaxSeed == 1
\* Number of calls a seeded run makes after seeding.
MaxCalls == 2
\* Largest num_starts handed to get_start_indices.
MaxStarts == 2

\* ------------------------------------------------------------------ floats
\* The values of get_weight_at_cell: NaN or an exact rational n/d in lowest
\* terms with d > 0. Rounding is not modelled in this section.
RECURSIVE GCD(_, _)
GCD(a, b) == IF b = 0 THEN a ELSE GCD(b, a % b)
Abs(x) == IF x < 0 THEN -x ELSE x

NaN == [nan |-> TRUE, n |-> 0, d |-> 1]
Rat(n, d) ==
    LET g == GCD(Abs(n), d)
    IN  [nan |-> FALSE, n |-> n \div g, d |-> d \div g]
F(n) == Rat(n, 1)

IsNaN(a) == a.nan
FAdd(a, b) == IF a.nan \/ b.nan THEN NaN ELSE Rat(a.n * b.d + b.n * a.d, a.d * b.d)
FSub(a, b) == IF a.nan \/ b.nan THEN NaN ELSE Rat(a.n * b.d - b.n * a.d, a.d * b.d)
FMul(a, b) == IF a.nan \/ b.nan THEN NaN ELSE Rat(a.n * b.n, a.d * b.d)
\* 0/0 is NaN. x/0 with x # 0 is an infinity in float64; no call of this model
\* divides a nonzero value by zero (every divisor is a positive sum).
FDiv(a, b) ==
    IF a.nan \/ b.nan \/ b.n = 0 THEN NaN
    ELSE IF b.n > 0 THEN Rat(a.n * b.d, a.d * b.n)
    ELSE Rat(-(a.n * b.d), a.d * (-b.n))
\* Comparisons with NaN are false, except != which is true.
FGt(a, b) == ~a.nan /\ ~b.nan /\ a.n * b.d > b.n * a.d
FLt(a, b) == ~a.nan /\ ~b.nan /\ a.n * b.d < b.n * a.d
FLe(a, b) == ~a.nan /\ ~b.nan /\ a.n * b.d <= b.n * a.d
FNe(a, b) == a.nan \/ b.nan \/ a.n * b.d # b.n * a.d
\* x ** k for a natural exponent k (x ** 0 is 1).
RECURSIVE FPow(_, _)
FPow(a, k) == IF k = 0 THEN F(1) ELSE FMul(a, FPow(a, k - 1))

\* np.nansum: the sum with every NaN taken as 0.
RECURSIVE NanSumFrom(_, _)
NanSumFrom(arr, k) ==
    IF k > Len(arr) THEN F(0)
    ELSE FAdd(IF arr[k].nan THEN F(0) ELSE arr[k], NanSumFrom(arr, k + 1))
NanSum(arr) == NanSumFrom(arr, 1)

\* ------------------------------------------------- float64 of random_pick
\* random_pick adds and compares float64 values, and its result depends on
\* how each addition rounds. The values of this section are float64 bit for
\* bit: a non-negative finite float64 is zero or m * 2^x with a significand m
\* of exactly MantBits bits. A significand is a natural number written in
\* base LimbBase, least significant limb first, with no leading zero limb.
MantBits == 52 + 1
LimbBits == 7 + 7
LimbBase == 2^LimbBits

Max2(a, b) == IF a >= b THEN a ELSE b

RECURSIVE BStrip(_)
BStrip(a) ==
    IF Len(a) > 0 /\ a[Len(a)] = 0 THEN BStrip(SubSeq(a, 1, Len(a) - 1)) ELSE a

Limb(a, i) == IF i <= Len(a) THEN a[i] ELSE 0

RECURSIVE BAddFrom(_, _, _, _)
BAddFrom(a, b, i, carry) ==
    IF i > Max2(Len(a), Len(b))
    THEN (IF carry = 0 THEN <<>> ELSE <<carry>>)
    ELSE LET s == Limb(a, i) + Limb(b, i) + carry
         IN  <<s % LimbBase>> \o BAddFrom(a, b, i + 1, s \div LimbBase)
BAdd(a, b) == BAddFrom(a, b, 1, 0)

\* a * f for a factor f <= LimbBase.
RECURSIVE BMulFrom(_, _, _, _)
BMulFrom(a, f, i, carry) ==
    IF i > Len(a)
    THEN (IF carry = 0 THEN <<>> ELSE <<carry>>)
    ELSE LET s == a[i] * f + carry
         IN  <<s % LimbBase>> \o BMulFrom(a, f, i + 1, s \div LimbBase)

\* a * 2^k.
BShl(a, k) ==
    IF Len(a) = 0 THEN a
    ELSE [i \in 1..(k \div LimbBits) |-> 0] \o BMulFrom(a, 2^(k % LimbBits), 1, 0)

\* a \div f and a % f for a divisor f <= LimbBase, from the top limb down.
RECURSIVE BDivFrom(_, _, _, _)
BDivFrom(a, f, i, rem) ==
    IF i = 0 THEN [q |-> <<>>, r |-> rem]
    ELSE LET t == rem * LimbBase + a[i]
             low == BDivFrom(a, f, i - 1, t % f)
         IN  [q |-> Append(low.q, t \div f), r |-> low.r]

\* a \div 2^k, and whether a one was shifted out.
BShr(a, k) ==
    LET drop == k \div LimbBits
        kept == SubSeq(a, drop + 1, Len(a))
        d == BDivFrom(kept, 2^(k % LimbBits), Len(kept), 0)
    IN  [q |-> BStrip(d.q),
         sticky |-> d.r # 0 \/ \E i \in 1..drop : Limb(a, i) # 0]

RECURSIVE IntBitLen(_)
IntBitLen(n) == IF n = 0 THEN 0 ELSE 1 + IntBitLen(n \div 2)
BBitLen(a) == IF Len(a) = 0 THEN 0 ELSE (Len(a) - 1) * LimbBits + IntBitLen(a[Len(a)])
BOdd(a) == Limb(a, 1) % 2 = 1

\* a < b, compared from the top limb down.
RECURSIVE BLtFrom(_, _, _)
BLtFrom(a, b, i) ==
    IF i = 0 THEN FALSE
    ELSE IF a[i] # b[i] THEN a[i] < b[i]
    ELSE BLtFrom(a, b, i - 1)
BLt(a, b) == IF Len(a) # Len(b) THEN Len(a) < Len(b) ELSE BLtFrom(a, b, Len(a))

RECURSIVE IntToBig(_)
IntToBig(n) == IF n = 0 THEN <<>> ELSE <<n % LimbBase>> \o IntToBig(n \div LimbBase)

F64Zero == [m |-> <<>>, x |-> 0]

\* The float64 nearest to big * 2^x (plus a little more when sticky), ties to
\* the even significand: the rounding of every float64 operation.
RoundToF64(big, x, sticky) ==
    LET len == BBitLen(big)
    IN  IF len = 0 THEN F64Zero
        ELSE IF len <= MantBits
        THEN [m |-> BShl(big, MantBits - len), x |-> x - (MantBits - len)]
        ELSE LET k == len - MantBits
                 withGuard == BShr(big, k - 1)
                 q == BShr(withGuard.q, 1).q
                 up == /\ BOdd(withGuard.q)
                       /\ (withGuard.sticky \/ sticky \/ BOdd(q))
                 m == IF up THEN BAdd(q, <<1>>) ELSE q
             IN  IF BBitLen(m) > MantBits
                 THEN [m |-> BShr(m, 1).q, x |-> x + k + 1]
                 ELSE [m |-> m, x |-> x + k]

\* The float64 of the integer ratio n / d (n >= 0, 0 < d): the quotient
\* numpy's true division of two exactly represented integers returns.
RECURSIVE FracLimbs(_, _, _)
FracLimbs(r, d, count) ==
    IF count = 0 THEN [limbs |-> <<>>, r |-> r]
    ELSE LET t == r * LimbBase
             rest == FracLimbs(t % d, d, count - 1)
         IN  [limbs |-> Append(rest.limbs, t \div d), r |-> rest.r]
FracLimbCount == MantBits \div LimbBits + 3
F64FromRat(n, d) ==
    LET frac == FracLimbs(n % d, d, FracLimbCount)
    IN  RoundToF64(BStrip(frac.limbs \o IntToBig(n \div d)),
                   -(FracLimbCount * LimbBits), frac.r # 0)

\* a < b and a <= b for float64 values that are not NaN.
F64Lt(a, b) ==
    IF Len(b.m) = 0 THEN FALSE
    ELSE IF Len(a.m) = 0 THEN TRUE
    ELSE IF a.x # b.x THEN a.x < b.x
    ELSE BLt(a.m, b.m)
F64Le(a, b) == ~F64Lt(b, a)

\* a + b, rounded once.
F64Add(a, b) ==
    IF Len(a.m) = 0 THEN b
    ELSE IF Len(b.m) = 0 THEN a
    ELSE LET hi == IF a.x >= b.x THEN a ELSE b
             lo == IF a.x >= b.x THEN b ELSE a
         IN  IF hi.x - lo.x > MantBits THEN hi
             ELSE RoundToF64(BAdd(BShl(hi.m, hi.x - lo.x), lo.m), lo.x, FALSE)

\* ------------------------------------------------------- direction tables
\* get_iwalk(): the 3x3 table of the first step delta.
get_iwalk == << <<-1, 0, 1>>, <<-1, 0, 1>>, <<-1, 0, 1>> >>

\* get_jwalk(): the 3x3 table of the second step delta.
get_jwalk == << <<-1, -1, -1>>, <<0, 0, 0>>, <<1, 1, 1>> >>

\* ndarray.flatten() of a 3x3 table: row-major order.
Flatten(m) == m[1] \o m[2] \o m[3]

\* np.sqrt of a non-negative int64: the exact non-negative real whose square
\* is n, kept by its radicand (sqrt 2 is irrational).
Sqrt(n) == [radicand |-> n]

\* ------------------------------------------------------------------ MT19937
\* The generator of np.random in compiled code is the Mersenne Twister
\* MT19937. A 32-bit word is a natural number below 2^32 in the limb form of
\* the float64 section.
RECURSIVE IntXor(_, _)
IntXor(a, b) ==
    IF a = 0 THEN b
    ELSE IF b = 0 THEN a
    ELSE ((a + b) % 2) + 2 * IntXor(a \div 2, b \div 2)
RECURSIVE IntAnd(_, _)
IntAnd(a, b) ==
    IF a = 0 \/ b = 0 THEN 0
    ELSE ((a % 2) * (b % 2)) + 2 * IntAnd(a \div 2, b \div 2)
BXor(a, b) == BStrip([i \in 1..Max2(Len(a), Len(b)) |-> IntXor(Limb(a, i), Limb(b, i))])
BAnd(a, b) == BStrip([i \in 1..Max2(Len(a), Len(b)) |-> IntAnd(Limb(a, i), Limb(b, i))])

\* a % 2^k.
BLow(a, k) ==
    BStrip([i \in 1..(k \div LimbBits + 1) |->
               IF i = k \div LimbBits + 1 THEN Limb(a, i) % 2^(k % LimbBits)
               ELSE Limb(a, i)])

\* a * b.
RECURSIVE BMulAt(_, _, _)
BMulAt(a, b, i) ==
    IF i > Len(b) THEN <<>>
    ELSE BAdd(BShl(BMulFrom(a, b[i], 1, 0), (i - 1) * LimbBits), BMulAt(a, b, i + 1))
BMul(a, b) == BStrip(BMulAt(a, b, 1))

WordBits == 32
\* The word hi * 2^16 + lo.
Word(hi, lo) == BAdd(BShl(IntToBig(hi), 16), IntToBig(lo))

\* The state array after seeding: entry 0 is the seed and entry i is
\* 1812433253 * (mt[i-1] ^ (mt[i-1] >> 30)) + i, cut to 32 bits.
MTNext(x, i) ==
    BLow(BAdd(BMul(IntToBig(1812433253), BXor(x, BShr(x, 30).q)), IntToBig(i)),
         WordBits)
\* The count entries from entry i on, entry i being x.
RECURSIVE MTFill(_, _, _)
MTFill(x, i, count) ==
    IF count = 1 THEN <<x>>
    ELSE LET half == count \div 2
             left == MTFill(x, i, half)
         IN  left \o MTFill(MTNext(left[half], i + half), i + half, count - half)
MTInit(sd, count) == MTFill(BLow(IntToBig(sd), WordBits), 0, count)

\* Entry k of the state array after the first regeneration, for k below
\* 624 - 397: both entries it is mixed from are still the seeded ones.
MTTwist(mt, k) ==
    LET y == BAdd(BAnd(mt[k + 1], Word(32768, 0)), BAnd(mt[k + 2], IntToBig(2147483647)))
        mag == IF BOdd(y) THEN Word(39176, 45279) ELSE <<>>
    IN  BXor(BXor(mt[k + 397 + 1], BShr(y, 1).q), mag)

\* The tempering of an output word.
MTTemper(y0) ==
    LET y1 == BXor(y0, BShr(y0, 11).q)
        y2 == BXor(y1, BAnd(BLow(BShl(y1, 7), WordBits), Word(40236, 22144)))
        y3 == BXor(y2, BAnd(BLow(BShl(y2, 15), WordBits), Word(61382, 0)))
    IN  BXor(y3, BShr(y3, 18).q)

\* The first count output words of the generator seeded with sd
\* (count <= 624 - 397).
MTWords(sd, count) ==
    LET mt == MTInit(sd, count + 397 + 1)
    IN  [k \in 1..count |-> MTTemper(MTTwist(mt, k - 1))]

\* The double made of two output words: (a * 2^26 + b) / 2^53 for their top
\* 27 and top 26 bits a and b.
WordsToDouble(w1, w2) ==
    RoundToF64(BAdd(BShl(BShr(w1, 5).q, 26), BShr(w2, 6).q), -MantBits, FALSE)

\* The first count draws of the generator seeded with sd.
MTDraws(sd, count) ==
    LET w == MTWords(sd, 2 * count)
    IN  [j \in 1..count |-> WordsToDouble(w[2 * j - 1], w[2 * j])]

\* ------------------------------------------------------------ random stream
\* A state of the generator is known here by the draws it has ahead of it.
\* It is either the state `at` draws after seeding with sd, whose draws are
\* those of MT19937, or one of RngModulus states reached otherwise (the state
\* a process starts in, a state tuple saved elsewhere), numbered 0 to
\* RngModulus - 1 and stepped as a linear congruential stream.
Seeded(sd) == [from |-> "seed", sd |-> sd, at |-> 0]
Other(n) == [from |-> "tuple", sd |-> 0, at |-> n]
OtherStates == {Other(n) : n \in 0..(RngModulus - 1)}

Advance(state) ==
    IF state.from = "seed" THEN [state EXCEPT !.at = @ + 1]
    ELSE [state EXCEPT !.at = (5 * @ + 7) % RngModulus]

\* set_random_seed(_seed): np.random.seed initialises the generator from the
\* seed alone.
SetRandomSeed(state, sd) == Seeded(sd)

\* get_random_state(): the state tuple of the stream; the stream is left as
\* it is.
GetRandomState(state) == state

\* set_random_state(_state_tuple): the stream takes the state of the tuple,
\* whatever state it was in.
SetRandomState(state, state_tuple) == state_tuple

\* The draws of the states reached otherwise: np.random.uniform(0, 1)
\* returns a multiple of 2^-MantBits in [0, 1), and the states 2b and 2b + 1
\* draw the smallest and the largest value of the b-th of DrawBuckets equal
\* parts of [0, 1), so that 0 and the largest float64 below 1 are both
\* drawn. Any such draws are ahead of some state of the generator.
DrawBuckets == (RngModulus + 1) \div 2
RECURSIVE DrawLimbs(_, _, _)
DrawLimbs(r, fill, count) ==
    IF count = 0 THEN <<>>
    ELSE LET t == r * LimbBase + fill
         IN  Append(DrawLimbs(t % DrawBuckets, fill, count - 1), t \div DrawBuckets)
OtherDraw(n) ==
    LET count == MantBits \div LimbBits + 1
        fill == IF n % 2 = 1 THEN LimbBase - 1 ELSE 0
        bits == BStrip(DrawLimbs(n \div 2, fill, count))
    IN  RoundToF64(BShr(bits, count * LimbBits - MantBits).q, -MantBits, FALSE)

\* The draws after seeding, for the seeds and the number of draws of a run.
SeededDraws == [sd \in 0..MaxSeed |-> MTDraws(sd, MaxCalls * MaxStarts)]

\* The value of the draw that left the stream in this state (for a seeded
\* state: one of the seeds and draws of SeededDraws).
DrawValue(state) ==
    IF state.from = "seed"
    THEN SeededDraws[state.sd][state.at]
    ELSE OtherDraw(state.at)

\* get_random_uniform(N): np.random.uniform(0, 1) steps the stream once and
\* returns a value in [0, 1); N is ignored.
GetRandomUniform(state) ==
    LET next == Advance(state)
    IN  [value |-> DrawValue(next), rng |-> next]

\* -------------------------------------------------------------- random_pick
\* np.cumsum of a float64 array: entry k is entry k - 1 plus arr[k], each
\* addition rounded.
RECURSIVE CumSum(_)
CumSum(arr) ==
    IF Len(arr) = 0 THEN <<>>
    ELSE LET head == CumSum(SubSeq(arr, 1, Len(arr) - 1))
         IN  Append(head, IF Len(head) = 0 THEN arr[1]
                          ELSE F64Add(head[Len(head)], arr[Len(arr)]))

\* The bisection of np.searchsorted on 0-based positions lo..hi.
RECURSIVE BisectLeft(_, _, _, _)
BisectLeft(a, v, lo, hi) ==
    IF lo >= hi THEN lo
    ELSE LET mid == lo + (hi - lo) \div 2
         IN  IF F64Lt(a[mid + 1], v) THEN BisectLeft(a, v, mid + 1, hi)
             ELSE BisectLeft(a, v, lo, mid)

\* np.searchsorted(a, v) with the default side='left': a position in
\* 0..len(a).
SearchSorted(a, v) == BisectLeft(a, v, 0, Len(a))

\* random_pick(prob) up to the read of arr: one draw, then the search of the
\* cumulative sums. Returns the position found and the stream state left.
RandomPick(p, state) ==
    LET draw == GetRandomUniform(state)
    IN  [pos |-> SearchSorted(CumSum(p), draw.value), rng |-> draw.rng]

\* arr[pos] for arr = np.arange(n). Compiled code does not check bounds, so
\* the read at pos = n is a read past the end of arr: any integer.
StrayInts == -1..9
ArangeRead(n, pos) == IF pos < n THEN {pos} ELSE StrayInts

\* -------------------------------------------------------- get_start_indices
RECURSIVE IntSum(_)
IntSum(w) == IF Len(w) = 0 THEN 0 ELSE w[1] + IntSum(Tail(w))

\* inlet_weights / np.sum(inlet_weights) for weights that are small
\* non-negative integers of positive sum: the sum is exact and each quotient
\* is rounded once.
NormWeights(w) == [k \in 1..Len(w) |-> F64FromRat(w[k], IntSum(w))]

\* The loop of get_start_indices: num random_pick calls, one after the other
\* on the same stream. All the outcomes [idxs, rng] the reads allow.
RECURSIVE StartPicks(_, _, _)
StartPicks(norm, num, state) ==
    IF num = 0 THEN {[idxs |-> <<>>, rng |-> state]}
    ELSE UNION {LET r == RandomPick(norm, prev.rng)
                IN  {[idxs |-> Append(prev.idxs, i), rng |-> r.rng] :
                        i \in ArangeRead(Len(norm), r.pos)} :
                prev \in StartPicks(norm, num - 1, state)}

\* arr.take(idxs): a negative index counts from the end, and an index outside
\* the array raises IndexError.
Take(arr, idxs) ==
    IF \E k \in 1..Len(idxs) : idxs[k] < -Len(arr) \/ idxs[k] > Len(arr) - 1
    THEN [raised |-> TRUE, cells |-> <<>>]
    ELSE [raised |-> FALSE,
          cells |-> [k \in 1..Len(idxs) |-> arr[(idxs[k] % Len(arr)) + 1]]]

\* get_start_indices(inlet, inlet_weights, num_starts): all the outcomes
\* [raised, cells, rng].
GetStartIndices(cells, w, num_starts, state) ==
    {LET taken == Take(cells, picks.idxs)
     IN  [raised |-> taken.raised, cells |-> taken.cells, rng |-> picks.rng] :
        picks \in StartPicks(NormWeights(w), num_starts, state)}

\* ---------------------------------------------------------------- get_steps
\* get_steps with astep set for every entry.
GetStepsMissingSelf(cells, iwalk, jwalk) ==
    LET istep == [k \in 1..Len(cells) |-> iwalk[cells[k] + 1]]
        jstep == [k \in 1..Len(cells) |-> jwalk[cells[k] + 1]]
        dist  == [k \in 1..Len(cells) |-> Sqrt(istep[k] * istep[k] + jstep[k] * jstep[k])]
        astep == [k \in 1..Len(cells) |-> TRUE]
    IN  [dist |-> dist, istep |-> istep, jstep |-> jstep, astep |-> astep]

\* get_steps(new_cells, iwalk, jwalk): fancy-index both tables by the batch,
\* take the Euclidean length and flag the entries that move.
GetSteps(cells, iwalk, jwalk) ==
    LET istep == [k \in 1..Len(cells) |-> iwalk[cells[k] + 1]]
        jstep == [k \in 1..Len(cells) |-> jwalk[cells[k] + 1]]
        dist  == [k \in 1..Len(cells) |-> Sqrt(istep[k] * istep[k] + jstep[k] * jstep[k])]
        astep == [k \in 1..Len(cells) |-> dist[k] # Sqrt(0)]
    IN  [dist |-> dist, istep |-> istep, jstep |-> jstep, astep |-> astep]

\* ---------------------------------------------------------- index transform
\* Results of the two functions: a raised IndexError or a value.
Raised == [raised |-> TRUE, x |-> 0, y |-> 0]
Returned(x, y) == [raised |-> FALSE, x |-> x, y |-> y]

\* custom_unravel dividing by shape[0] instead of shape[1].
CustomUnravelColsSwapped(i, shp) ==
    IF i > shp[2] * shp[1] THEN Raised
    ELSE Returned(i \div shp[1], i % shp[1])

\* custom_unravel(i, shape): floor division and Python modulo by shape[1].
CustomUnravel(i, shp) ==
    IF i > shp[2] * shp[1] THEN Raised
    ELSE Returned(i \div shp[2], i % shp[2])

\* custom_ravel(tup, shape): returns the flat index in x (y is unused).
CustomRavel(t, shp) ==
    IF t[1] > shp[1] \/ t[2] > shp[2] THEN Raised
    ELSE Returned(t[1] * shp[2] + t[2], 0)

\* ------------------------------------------------------ get_weight_at_cell
\* Lines 112-114: a source on row 0 has its first three directions set to NaN
\* (a slice assignment: it writes into the array it is given).
MaskUpstream(src, arr) ==
    [k \in 1..Len(arr) |-> IF src[1] = 0 /\ k <= 3 THEN NaN ELSE arr[k]]

\* Line 116: drywall = (depth_nbrs <= dry_depth) | (ct_nbrs == -2).
DryWall(depth, ct, dry) ==
    [k \in 1..Len(depth) |-> FLe(depth[k], dry) \/ ct[k] = -2]

\* Lines 117-118: a boolean-mask assignment of NaN, again in place.
MaskDryWall(arr, drywall) ==
    [k \in 1..Len(arr) |-> IF drywall[k] THEN NaN ELSE arr[k]]

\* Lines 120-124: divide a surface by its nansum when that is positive. The
\* division makes a new array, bound to the local name.
NormalizeSurface(arr) ==
    LET total == NanSum(arr)
    IN  IF FGt(total, F(0)) THEN [k \in 1..Len(arr) |-> FDiv(arr[k], total)] ELSE arr

\* Lines 126-128: blend the two surfaces, scale by depth ** theta and zero the
\* entries whose depth is at most dry_depth.
Blend(sfc, int, depth, dry, gam, th) ==
    [k \in 1..Len(sfc) |->
        IF FLe(depth[k], dry) THEN F(0)
        ELSE FMul(FPow(depth[k], th),
                  FAdd(FMul(gam, sfc[k]), FMul(FSub(F(1), gam), int[k])))]

\* The resolution without line 134: NaN entries survive the renormalisation.
ResolveKeepNaN(w) ==
    LET notNan == {k \in 1..Len(w) : ~IsNaN(w[k])}
        total == NanSum(w)
        cnt == IF Cardinality(notNan) > 1 THEN Cardinality(notNan) ELSE 1
    IN  IF \E k \in notNan : FNe(w[k], F(0))
        THEN [k \in 1..Len(w) |-> FDiv(w[k], total)]
        ELSE [k \in 1..Len(w) |-> IF IsNaN(w[k]) THEN F(0) ELSE Rat(1, cnt)]

\* Lines 130-137: renormalise by the nansum when a non-NaN entry is nonzero,
\* else spread 1 / max(1, number of non-NaN entries) over the non-NaN
\* entries; NaN entries become 0 either way.
Resolve(w) ==
    LET notNan == {k \in 1..Len(w) : ~IsNaN(w[k])}
        total == NanSum(w)
        cnt == IF Cardinality(notNan) > 1 THEN Cardinality(notNan) ELSE 1
    IN  IF \E k \in notNan : FNe(w[k], F(0))
        THEN [k \in 1..Len(w) |-> IF IsNaN(w[k]) THEN F(0) ELSE FDiv(w[k], total)]
        ELSE [k \in 1..Len(w) |-> IF IsNaN(w[k]) THEN F(0) ELSE Rat(1, cnt)]

\* get_weight_at_cell with the normalisation of lines 121 and 124 done in place.
GetWeightAtCellNormalizesInPlace(src, wsfc, wint, depth, ct, dry, gam, th) ==
    LET drywall == DryWall(depth, ct, dry)
        sfc == NormalizeSurface(MaskDryWall(MaskUpstream(src, wsfc), drywall))
        int == NormalizeSurface(MaskDryWall(MaskUpstream(src, wint), drywall))
    IN  [weight |-> Resolve(Blend(sfc, int, depth, dry, gam, th)),
         weight_sfc |-> sfc,
         weight_int |-> int]

\* get_weight_at_cell (lines 108-138). Returns the weight array together with
\* the caller's weight_sfc and weight_int arrays as the call leaves them:
\* both mask assignments write into the caller's arrays, the normalisation
\* does not.
GetWeightAtCell(src, wsfc, wint, depth, ct, dry, gam, th) ==
    LET drywall == DryWall(depth, ct, dry)
        sfc == MaskDryWall(MaskUpstream(src, wsfc), drywall)
        int == MaskDryWall(MaskUpstream(src, wint), drywall)
    IN  [weight |-> Resolve(Blend(NormalizeSurface(sfc), NormalizeSurface(int),
                                  depth, dry, gam, th)),
         weight_sfc |-> sfc,
         weight_int |-> int]

\* ------------------------------------------------ index transform: callers
Shapes == (1..MaxDim) \X (1..MaxDim)
\* Arguments reach one past each end of the largest grid.
Coords == (-1..(MaxDim + 1)) \X (-1..(MaxDim + 1))
Flats == -1..(MaxDim * MaxDim + 1)

IdxInit ==
    /\ shape \in Shapes
    /\ idx_pc \in {"ravel", "unravel"}
    /\ \/ /\ idx_pc = "ravel"
          /\ tup \in Coords
          /\ flat = 0
       \/ /\ idx_pc = "unravel"
          /\ flat \in Flats
          /\ tup = <<0, 0>>
    /\ idx_in = [first |-> idx_pc, tup |-> tup, i |-> flat]
    /\ idx_err = FALSE

IdxIdle ==
    /\ shape = <<1, 1>>
    /\ idx_pc = "idle"
    /\ tup = <<0, 0>>
    /\ flat = 0
    /\ idx_in = [first |-> idx_pc, tup |-> tup, i |-> flat]
    /\ idx_err = FALSE

\* The caller ravels a coordinate, then (RavelBack) ravels the coordinate an
\* unravel returned.
Ravel(from, to) ==
    /\ idx_pc = from
    /\ LET r == CustomRavel(tup, shape)
       IN  IF r.raised
           THEN /\ idx_err' = TRUE
                /\ idx_pc' = "raised"
                /\ flat' = flat
           ELSE /\ idx_err' = FALSE
                /\ idx_pc' = to
                /\ flat' = r.x
    /\ UNCHANGED <<shape, idx_in, tup>>

Unravel(from, to) ==
    /\ idx_pc = from
    /\ LET r == CustomUnravel(flat, shape)
       IN  IF r.raised
           THEN /\ idx_err' = TRUE
                /\ idx_pc' = "raised"
                /\ tup' = tup
           ELSE /\ idx_err' = FALSE
                /\ idx_pc' = to
                /\ tup' = <<r.x, r.y>>
    /\ UNCHANGED <<shape, idx_in, flat>>

RavelFirst == Ravel("ravel", "unravel_back")
UnravelBack == Unravel("unravel_back", "done_tup")
UnravelFirst == Unravel("unravel", "ravel_back")
RavelBack == Ravel("ravel_back", "done_flat")

\* ------------------------------------------------------ get_steps: callers
RECURSIVE Batches(_)
Batches(n) ==
    IF n = 0 THEN {<<>>}
    ELSE LET shorter == Batches(n - 1)
         IN  shorter \cup {Append(b, d) : b \in {s \in shorter : Len(s) = n - 1}, d \in 0..8}

StInit ==
    /\ st_pc = "call"
    /\ new_cells \in Batches(MaxBatch) \ {<<>>}
    /\ steps = [dist |-> <<>>, istep |-> <<>>, jstep |-> <<>>, astep |-> <<>>]

StIdle ==
    /\ st_pc = "idle"
    /\ new_cells = <<>>
    /\ steps = [dist |-> <<>>, istep |-> <<>>, jstep |-> <<>>, astep |-> <<>>]

StepsCall ==
    /\ st_pc = "call"
    /\ steps' = GetSteps(new_cells, Flatten(get_iwalk), Flatten(get_jwalk))
    /\ st_pc' = "done"
    /\ UNCHANGED new_cells

\* --------------------------------------------- get_weight_at_cell: callers
\* The arrays the caller passes: 9 entries running through 0..m-1 with stride
\* a from offset b (a = 0 is a constant array).
Pattern(a, b, m) == [k \in 1..9 |-> (a * (k - 1) + b) % m]
Patterns(strides, m) == {Pattern(a, b, m) : a \in strides, b \in 0..(m - 1)}
FloatArr(p) == [k \in 1..Len(p) |-> F(p[k])]

DepthArrs == {FloatArr(p) : p \in Patterns({0, 1}, MaxDepth + 1)}
SfcArrs == {FloatArr(p) : p \in Patterns(0..MaxWeight, MaxWeight + 1)}
IntArrs == {FloatArr(p) : p \in Patterns(0..MaxWeight, MaxWeight + 1)}
\* Cell types: -2 is a wall, 0 a plain cell. No wall, every third cell a wall,
\* or all walls.
CtArrs == {[k \in 1..9 |-> IF p[k] = 0 THEN -2 ELSE 0] : p \in Patterns({0, 1}, 3)}
Gammas == {F(0), Rat(1, 2), F(1)}
Thetas == {1, 2}

NoWeight == [k \in 1..9 |-> F(0)]

WInit ==
    /\ w_pc = "call"
    /\ ind \in {<<0, 1>>, <<1, 1>>}
    /\ weight_sfc \in SfcArrs
    /\ weight_int \in IntArrs
    /\ depth_nbrs \in DepthArrs
    /\ ct_nbrs \in CtArrs
    /\ dry_depth = F(1)
    /\ gamma \in Gammas
    /\ theta \in Thetas
    /\ weight = NoWeight
    /\ w_args = [weight_sfc |-> weight_sfc, weight_int |-> weight_int,
                 depth_nbrs |-> depth_nbrs, ct_nbrs |-> ct_nbrs]

WIdle ==
    /\ w_pc = "idle"
    /\ ind = <<0, 0>>
    /\ weight_sfc = NoWeight
    /\ weight_int = NoWeight
    /\ depth_nbrs = NoWeight
    /\ ct_nbrs = [k \in 1..9 |-> 0]
    /\ dry_depth = F(0)
    /\ gamma = F(0)
    /\ theta = 1
    /\ weight = NoWeight
    /\ w_args = [weight_sfc |-> weight_sfc, weight_int |-> weight_int,
                 depth_nbrs |-> depth_nbrs, ct_nbrs |-> ct_nbrs]

WeightCall ==
    /\ w_pc = "call"
    /\ LET r == GetWeightAtCell(ind, weight_sfc, weight_int, depth_nbrs, ct_nbrs,
                                dry_depth, gamma, theta)
       IN  /\ weight' = r.weight
           /\ weight_sfc' = r.weight_sfc
           /\ weight_int' = r.weight_int
    /\ w_pc' = "done"
    /\ UNCHANGED <<ind, depth_nbrs, ct_nbrs, dry_depth, gamma, theta, w_args>>

\* ---------------------------------------------------- random_pick: callers
\* All sequences of n naturals of sum total.
RECURSIVE IntCompositions(_, _)
IntCompositions(n, total) ==
    IF n = 0 THEN (IF total = 0 THEN {<<>>} ELSE {})
    ELSE UNION {{<<x>> \o c : c \in IntCompositions(n - 1, total - x)} :
                x \in 0..total}

\* The nine raw weights that are c from direction off on and 0 elsewhere.
Placed(c, off) ==
    [k \in 1..9 |-> IF off < k /\ k <= off + Len(c) THEN c[k - off] ELSE 0]

\* The float64 array of the raw weights w over ProbDen.
ProbOf(w) == [k \in 1..Len(w) |-> F64FromRat(w[k], ProbDen)]

\* The arrays of four neighbouring weights of total ProbDen, their float64
\* values summing to 1 up to rounding, and the all-zero array a trapped
\* parcel gets.
ProbArrs ==
    {ProbOf(Placed(c, off)) : c \in IntCompositions(4, ProbDen), off \in {0, 3, 5}}
        \cup {[k \in 1..9 |-> F64Zero]}

PickInit ==
    /\ pick_pc = "call"
    /\ rng \in OtherStates \cup {Seeded(sd) : sd \in 0..MaxSeed}
    /\ prob \in ProbArrs
    /\ picked = 0

PickIdle ==
    /\ pick_pc = "idle"
    /\ rng = Other(0)
    /\ prob = NoWeight
    /\ picked = 0

PickCall ==
    /\ pick_pc = "call"
    /\ LET r == RandomPick(prob, rng)
       IN  /\ picked' \in ArangeRead(Len(prob), r.pos)
           /\ rng' = r.rng
    /\ pick_pc' = "done"
    /\ UNCHANGED prob

\* ------------------------------------------------------------- seeded runs
\* Two runs of the same program: each process starts with its own stream in
\* an arbitrary state, seeds it with the same seed and then makes the same
\* calls in the same order with the same arguments. Both processes hold the
\* same state tuple, saved elsewhere; get_random_state replaces it.
Runs == {1, 2}
RunWeights == {c \in IntCompositions(4, ProbDen) : \A k \in 1..4 : c[k] >= 1}
Ops ==
    {[op |-> o, num |-> 0] : o \in {"pick", "uniform", "get_state", "set_state"}}
        \cup {[op |-> "starts", num |-> n] : n \in 1..MaxStarts}
Programs == [1..MaxCalls -> Ops]
\* What a call returned: the integers of an index or of an array of cells,
\* the float64 of a draw, a state tuple, or an IndexError raised.
Out(ints, value) == [ints |-> ints, value |-> value, raised |-> FALSE]
OutState(state) == [ints |-> <<state.sd, state.at>>, value |-> F64Zero, raised |-> FALSE]
OutRaised == [ints |-> <<>>, value |-> F64Zero, raised |-> TRUE]

RunInit ==
    /\ seed \in 0..MaxSeed
    /\ calls \in Programs
    /\ inlet_weights \in RunWeights
    /\ inlet = [k \in 1..Len(inlet_weights) |-> 10 + k]
    /\ prob = ProbOf(Placed(inlet_weights, 0))
    /\ run_pc = [r \in Runs |-> 0]
    /\ run_rng \in [Runs -> {Other(0), Other(RngModulus - 1)}]
    /\ \E tuple \in OtherStates : run_saved = [r \in Runs |-> tuple]
    /\ run_out = [r \in Runs |-> <<>>]
    /\ pick_pc = "idle"
    /\ rng = Other(0)
    /\ picked = 0

RunIdle ==
    /\ seed = 0
    /\ calls = <<>>
    /\ inlet = <<>>
    /\ inlet_weights = <<>>
    /\ run_pc = [r \in Runs |-> "idle"]
    /\ run_rng = [r \in Runs |-> Other(0)]
    /\ run_saved = [r \in Runs |-> Other(0)]
    /\ run_out = [r \in Runs |-> <<>>]

\* The call run r is about to make; a run whose call raised is past the end
\* of calls.
AtCall(r, o) ==
    /\ run_pc[r] \in 1..Len(calls)
    /\ calls[run_pc[r]].op = o
Returns(r, out) ==
    /\ run_out' = [run_out EXCEPT ![r] = Append(@, out)]
    /\ run_pc' = [run_pc EXCEPT ![r] = @ + 1]

RunSeed(r) ==
    /\ run_pc[r] = 0
    /\ run_rng' = [run_rng EXCEPT ![r] = SetRandomSeed(run_rng[r], seed)]
    /\ run_pc' = [run_pc EXCEPT ![r] = 1]
    /\ UNCHANGED <<seed, calls, inlet, inlet_weights, run_saved, run_out, pick_vars>>

RunPick(r) ==
    /\ AtCall(r, "pick")
    /\ LET res == RandomPick(prob, run_rng[r])
       IN  /\ \E i \in ArangeRead(Len(prob), res.pos) :
                 Returns(r, Out(<<i>>, F64Zero))
           /\ run_rng' = [run_rng EXCEPT ![r] = res.rng]
    /\ UNCHANGED <<seed, calls, inlet, inlet_weights, run_saved, pick_vars>>

RunStarts(r) ==
    /\ AtCall(r, "starts")
    /\ \E res \in GetStartIndices(inlet, inlet_weights, calls[run_pc[r]].num,
                                  run_rng[r]) :
          /\ IF res.raised
             THEN /\ run_out' = [run_out EXCEPT ![r] = Append(@, OutRaised)]
                  /\ run_pc' = [run_pc EXCEPT ![r] = Len(calls) + 1]
             ELSE Returns(r, Out(res.cells, F64Zero))
          /\ run_rng' = [run_rng EXCEPT ![r] = res.rng]
    /\ UNCHANGED <<seed, calls, inlet, inlet_weights, run_saved, pick_vars>>

RunUniform(r) ==
    /\ AtCall(r, "uniform")
    /\ LET draw == GetRandomUniform(run_rng[r])
       IN  /\ Returns(r, Out(<<>>, draw.value))
           /\ run_rng' = [run_rng EXCEPT ![r] = draw.rng]
    /\ UNCHANGED <<seed, calls, inlet, inlet_weights, run_saved, pick_vars>>

RunGetState(r) ==
    /\ AtCall(r, "get_state")
    /\ run_saved' = [run_saved EXCEPT ![r] = GetRandomState(run_rng[r])]
    /\ Returns(r, OutState(GetRandomState(run_rng[r])))
    /\ UNCHANGED <<seed, calls, inlet, inlet_weights, run_rng, pick_vars>>

RunSetState(r) ==
    /\ AtCall(r, "set_state")
    /\ run_rng' = [run_rng EXCEPT ![r] = SetRandomState(run_rng[r], run_saved[r])]
    /\ run_pc' = [run_pc EXCEPT ![r] = @ + 1]
    /\ UNCHANGED <<seed, calls, inlet, inlet_weights, run_saved, run_out, pick_vars>>

\* -------------------------------------------------------- specifications
\* Index transform calls only.
InitIndex == IdxInit /\ StIdle /\ WIdle /\ PickIdle /\ RunIdle
NextIndex ==
    \/ RavelFirst /\ UNCHANGED <<st_vars, w_vars, pick_vars, run_vars>>
    \/ UnravelBack /\ UNCHANGED <<st_vars, w_vars, pick_vars, run_vars>>
    \/ UnravelFirst /\ UNCHANGED <<st_vars, w_vars, pick_vars, run_vars>>
    \/ RavelBack /\ UNCHANGED <<st_vars, w_vars, pick_vars, run_vars>>
SpecIndex == InitIndex /\ [][NextIndex]_vars

\* get_steps calls only.
InitSteps == StInit /\ IdxIdle /\ WIdle /\ PickIdle /\ RunIdle
NextSteps == StepsCall /\ UNCHANGED <<idx_vars, w_vars, pick_vars, run_vars>>
SpecSteps == InitSteps /\ [][NextSteps]_vars

\* get_weight_at_cell calls only.
InitWeight == WInit /\ IdxIdle /\ StIdle /\ PickIdle /\ RunIdle
NextWeight == WeightCall /\ UNCHANGED <<idx_vars, st_vars, pick_vars, run_vars>>
SpecWeight == InitWeight /\ [][NextWeight]_vars

\* random_pick calls only, on an unseeded stream.
InitPick == PickInit /\ RunIdle /\ IdxIdle /\ StIdle /\ WIdle
NextPick == PickCall /\ UNCHANGED <<idx_vars, st_vars, w_vars, run_vars>>
SpecPick == InitPick /\ [][NextPick]_vars

\* Two seeded runs.
InitRuns == RunInit /\ IdxIdle /\ StIdle /\ WIdle
NextRuns ==
    \/ \E r \in Runs : RunSeed(r) /\ UNCHANGED <<idx_vars, st_vars, w_vars>>
    \/ \E r \in Runs : RunPick(r) /\ UNCHANGED <<idx_vars, st_vars, w_vars>>
    \/ \E r \in Runs : RunStarts(r) /\ UNCHANGED <<idx_vars, st_vars, w_vars>>
    \/ \E r \in Runs : RunUniform(r) /\ UNCHANGED <<idx_vars, st_vars, w_vars>>
    \/ \E r \in Runs : RunGetState(r) /\ UNCHANGED <<idx_vars, st_vars, w_vars>>
    \/ \E r \in Runs : RunSetState(r) /\ UNCHANGED <<idx_vars, st_vars, w_vars>>
SpecRuns == InitRuns /\ [][NextRuns]_vars

\* ------------------------------------------------------------- properties
\* The sum of the entries of arr at the positions dirs.
RECURSIVE SumOver(_, _)
SumOver(arr, dirs) ==
    IF dirs = {} THEN F(0)
    ELSE LET k == CHOOSE x \in dirs : TRUE
         IN  FAdd(arr[k], SumOver(arr, dirs \ {k}))

\* ---------------------------------------------- properties: index transform
InGrid(t) == 0 <= t[1] /\ t[1] < shape[1] /\ 0 <= t[2] /\ t[2] < shape[2]
InRange(i) == 0 <= i /\ i < shape[1] * shape[2]

\* C1: custom_ravel raises for every (row, col) outside the grid and
\* custom_unravel raises for every flat index outside 0..rows*cols-1: a first
\* call that returned was given an argument of the valid domain.
C1_OutOfDomainRaises ==
    /\ idx_pc = "unravel_back" => InGrid(idx_in.tup)
    /\ idx_pc = "ravel_back" => InRange(idx_in.i)

\* C2: for a (row, col) inside the grid, ravel then unravel raises nothing and
\* returns (row, col); for a flat index in range, unravel then ravel raises
\* nothing and returns the index.
C2_RoundTrip ==
    /\ (idx_in.first = "ravel" /\ InGrid(idx_in.tup))
          => /\ ~idx_err
             /\ idx_pc = "done_tup" => tup = idx_in.tup
    /\ (idx_in.first = "unravel" /\ InRange(idx_in.i))
          => /\ ~idx_err
             /\ idx_pc = "done_flat" => flat = idx_in.i

\* C2 witness: a finished round trip of an off-diagonal cell of a grid that
\* is not square.
C2_Witness ==
    /\ idx_pc = "done_tup"
    /\ InGrid(idx_in.tup)
    /\ shape[1] # shape[2]
    /\ idx_in.tup[1] >= 1
    /\ idx_in.tup[1] # idx_in.tup[2]
    /\ tup = idx_in.tup

\* --------------------------------------------------- properties: get_steps
\* C9: the self direction (index 4) has deltas (0, 0), distance 0 and astep
\* false; every other index has astep true and squared distance 1 with one
\* nonzero delta or 2 with two; different indices have different deltas.
C9_SelfStaysOthersMove ==
    st_pc = "done" =>
        \A k \in 1..Len(new_cells) :
            /\ new_cells[k] = 4
                  => /\ steps.istep[k] = 0 /\ steps.jstep[k] = 0
                     /\ steps.dist[k] = Sqrt(0)
                     /\ steps.astep[k] = FALSE
            /\ new_cells[k] # 4
                  => /\ steps.astep[k] = TRUE
                     /\ steps.dist[k].radicand =
                           Cardinality({x \in {"i", "j"} :
                               (IF x = "i" THEN steps.istep[k] ELSE steps.jstep[k]) # 0})
                     /\ steps.dist[k].radicand \in {1, 2}
            /\ \A j \in 1..Len(new_cells) :
                  new_cells[j] # new_cells[k]
                      => <<steps.istep[j], steps.jstep[j]>> # <<steps.istep[k], steps.jstep[k]>>

\* C9 witness: a resolved batch holding the self direction and a diagonal.
C9_Witness ==
    /\ st_pc = "done"
    /\ \E j, k \in 1..Len(new_cells) :
          /\ new_cells[j] = 4
          /\ steps.astep[j] = FALSE
          /\ steps.dist[k] = Sqrt(2)

\* ------------------------------------------------- properties: random_pick
\* prob[0] + ... + prob[k], the float64 sum taken entry by entry in index
\* order.
RECURSIVE CumulativeTo(_, _)
CumulativeTo(p, k) ==
    IF k = 0 THEN p[1] ELSE F64Add(CumulativeTo(p, k - 1), p[k + 1])
\* The entries sum to 1 within the tolerance 2^-30 (below 1e-9).
Tolerance == 2^30
SumsToOne(p) ==
    LET total == CumulativeTo(p, Len(p) - 1)
    IN  /\ F64Le(RoundToF64(IntToBig(Tolerance - 1), -30, FALSE), total)
        /\ F64Le(total, RoundToF64(IntToBig(Tolerance + 1), -30, FALSE))
\* The value the last draw returned.
LastDraw == DrawValue(rng)

\* C6: for prob summing to 1 and the one draw u of the call, random_pick
\* returns the smallest index k with prob[0] + ... + prob[k] >= u, an index
\* of prob.
C6_SmallestIndexReachingDraw ==
    (pick_pc = "done" /\ SumsToOne(prob))
        => /\ picked \in 0..(Len(prob) - 1)
           /\ F64Le(LastDraw, CumulativeTo(prob, picked))
           /\ \A j \in 0..(picked - 1) : F64Lt(CumulativeTo(prob, j), LastDraw)

\* C10: for prob summing to 1 and any draw in [0, 1), the index random_pick
\* returns has a positive weight.
C10_NeverPicksZeroWeight ==
    (pick_pc = "done" /\ SumsToOne(prob) /\ picked \in 0..(Len(prob) - 1))
        => F64Lt(F64Zero, prob[picked + 1])

\* ------------------------------------------------- properties: seeded runs
\* C7: two runs that seed with the same seed and make the same calls in the
\* same order get the same results call by call.
C7_SameSeedSameSequence ==
    \A j \in 1..Len(run_out[1]) :
        j <= Len(run_out[2]) => run_out[1][j] = run_out[2][j]

\* ------------------------------------------- properties: get_weight_at_cell
\* The direction classes, read from the arguments as the caller passed them.
Dry(k) == FLe(w_args.depth_nbrs[k], dry_depth)
Wall(k) == w_args.ct_nbrs[k] = -2
UpstreamOfFirstRow(k) == ind[1] = 0 /\ k <= 3
Valid(k) == ~Dry(k) /\ ~Wall(k) /\ ~UpstreamOfFirstRow(k)
ValidDirs == {k \in 1..9 : Valid(k)}
\* The blended weight of a valid direction is 0 exactly when neither surface
\* contributes: weights are non-negative and depth ** theta is positive.
BlendIsZero(k) ==
    /\ gamma = F(0) \/ w_args.weight_sfc[k] = F(0)
    /\ gamma = F(1) \/ w_args.weight_int[k] = F(0)

\* C3: when every neighbour depth is <= dry_depth, every entry of the
\* returned weight array is 0.
C3_AllDryReturnsAllZero ==
    (w_pc = "done" /\ \A k \in 1..9 : Dry(k))
        => \A k \in 1..9 : weight[k] = F(0)

\* C4: when n >= 1 directions are valid and every valid direction's blended
\* weight is 0, each valid direction gets exactly 1/n and every invalid
\* direction (dry, wall or upstream of a first-row source) gets 0.
C4_UniformOverValidOnly ==
    (/\ w_pc = "done"
     /\ ValidDirs # {}
     /\ \A k \in ValidDirs : BlendIsZero(k))
        => \A k \in 1..9 :
              weight[k] = IF Valid(k) THEN Rat(1, Cardinality(ValidDirs)) ELSE F(0)

\* C5: when some valid direction has a nonzero blended weight, the returned
\* array is a probability vector: no entry is NaN or negative, every invalid
\* entry is 0 and the valid entries sum to 1.
C5_NonDegenerateIsProbability ==
    (w_pc = "done" /\ \E k \in ValidDirs : ~BlendIsZero(k))
        => /\ \A k \in 1..9 : ~IsNaN(weight[k]) /\ weight[k].n >= 0
           /\ \A k \in 1..9 : ~Valid(k) => weight[k] = F(0)
           /\ SumOver(weight, ValidDirs) = F(1)

\* C5 witness: a non-degenerate call on row 0 with a dry and a wall neighbour
\* whose result gives two valid directions different positive weights.
C5_Witness ==
    /\ w_pc = "done"
    /\ ind[1] = 0
    /\ \E k \in 4..9 : Dry(k)
    /\ \E k \in 4..9 : Wall(k) /\ ~Dry(k)
    /\ \E j, k \in ValidDirs :
          /\ ~BlendIsZero(j)
          /\ FGt(weight[j], F(0))
          /\ FGt(weight[k], weight[j])

\* C8 as claimed: the call leaves all four arrays as the caller passed them.
C8_ArgumentsUnchanged ==
    w_pc = "done"
        => /\ weight_sfc = w_args.weight_sfc
           /\ weight_int = w_args.weight_int
           /\ depth_nbrs = w_args.depth_nbrs
           /\ ct_nbrs = w_args.ct_nbrs

\* C8 amended: the call leaves depth_nbrs and ct_nbrs unchanged, and changes
\* weight_sfc and weight_int only by overwriting with NaN the entries of the
\* invalid directions; the entries of valid directions keep their values.
C8_OnlyInvalidEntriesOverwritten ==
    w_pc = "done"
        => /\ depth_nbrs = w_args.depth_nbrs
           /\ ct_nbrs = w_args.ct_nbrs
           /\ \A k \in 1..9 :
                 /\ weight_sfc[k] = IF Valid(k) THEN w_args.weight_sfc[k] ELSE NaN
                 /\ weight_int[k] = IF Valid(k) THEN w_args.weight_int[k] ELSE NaN

\* C8 witness: a finished call that normalised both surfaces (their sums
\* exceed 1) and overwrote some but not all entries.
C8_Witness ==
    /\ w_pc = "done"
    /\ FGt(NanSum(weight_sfc), F(1))
    /\ FGt(NanSum(weight_int), F(1))
    /\ \E k \in 1..9 : IsNaN(weight_sfc[k]) /\ ~IsNaN(w_args.weight_sfc[k])
    /\ \E k \in 1..9 : ~IsNaN(weight_sfc[k])
====
